---------------------------- MODULE Spec2Model ----------------------------
(***************************************************************************)
(* A model of comp_osm.py: the retrying HTTP layer (safe_post), the cached *)
(* dataset acquisition (get_osm_data), the entity resolver                 *)
(* (infer_node_and_boundary), the feature counter (count_features), the    *)
(* scoring engine (compute_score) and the pipeline (process_places).       *)
(*                                                                         *)
(* Scores are kept in tenths of a point (Scale), so that the 0.1, 0.2 and  *)
(* 0.3 weights of compute_score stay integers.  Names (tag values of the   *)
(* name family, the address segment) are sequences of characters, so that  *)
(* "==" and "in" of the source are equality and substring containment.     *)
(***************************************************************************)
EXTENDS Integers, Sequences, FiniteSets, TLC

(* ----------------------------- bounds ---------------------------------- *)
\* longest node list of an enumerated graph
MaxNodes == 2
\* longest relation list of an enumerated graph
MaxRels == 2
\* longest way list of an enumerated graph
MaxWays == 2
\* largest feature count of an enumerated row
MaxCount == 130
\* number of invocations of the program over the same cache directory
MaxRuns == 2
\* longest input file, in lines
MaxPlaces == 2

(* ------------------------ program constants ---------------------------- *)
\* tenths of a score point
Scale == 10
\* the value of a variable holding Python's None where a number may stand
None == -9
\* the value pandas gives a column a row has no key for
NaN == -99
\* max_retry of safe_post
max_retry == 5
\* time.sleep(2) after a successful download
FetchPause == 2
\* OFF_LINE of the configuration
OFF_LINE == FALSE

VARIABLES
    \* pure-function harness: the input, the output and the position
    fin, fout, fpc,
    \* the pipeline
    world,          \* which remote database the run talks to
    places,         \* the lines of the input file
    run,            \* which invocation of the program this is
    cache,          \* osm_cache: (place, radius) -> file
    pc,             \* position in process_places and its callees
    idx,            \* index of the place being processed
    lon, lat,       \* working coordinate
    row, rows,      \* the place's row, the rows appended so far
    osm_root,       \* parsed 3 km graph for the resolver
    inferred,       \* node_id, boundary_id, nlon, nlat
    force_update,
    radii,          \* the radii the loop has still to do
    call,           \* arguments of the get_osm_data / safe_overpass_xml call
    attempt,        \* loop variable of safe_post
    resp,           \* what safe_post / get_osm_data returned
    pause,          \* seconds the last step slept
    sinceOk,        \* seconds since the last successful request (saturating)
    df              \* the scored table

vars == <<fin, fout, fpc, world, places, run, cache, pc, idx, lon, lat, row,
          rows, osm_root, inferred, force_update, radii, call, attempt, resp,
          pause, sinceOk, df>>

pipeVars == <<world, places, run, cache, pc, idx, lon, lat, row, rows,
              osm_root, inferred, force_update, radii, call, attempt, resp,
              pause, sinceOk, df>>

funVars == <<fin, fout, fpc>>

(* ----------------------------- helpers --------------------------------- *)
Min(a, b) == IF b < a THEN b ELSE a

\* tags.get(k) for a tag whose value is a plain string
NoTag == "<None>"

Get(tags, k) == IF k \in DOMAIN tags THEN tags[k] ELSE NoTag

\* Python's "s in t" on strings
IsSubstring(s, t) ==
    \E i \in 1..(Len(t) - Len(s) + 1) : SubSeq(t, i, i + Len(s) - 1) = s

(* ------------------------ match_name (149-168) ------------------------- *)
ExactKeys == {"name:zh", "official_name", "official_name:zh", "alt_name",
              "alt_name:zh", "old_name", "old_name:zh", "short_name",
              "short_name:zh"}

FuzzyKeys == {"official_name", "alt_name", "old_name", "short_name"}

match_name_exact(addr_4, tags) ==
    \/ addr_4 = tags["name"]
    \/ \E k \in ExactKeys : k \in DOMAIN tags /\ addr_4 = tags[k]

match_name_fuzzy(addr_4, tags) ==
    \/ IsSubstring(addr_4, tags["name"])
    \/ \E k \in FuzzyKeys : k \in DOMAIN tags /\ IsSubstring(addr_4, tags[k])

match_name(addr_4, tags, exact_match) ==
    IF exact_match THEN match_name_exact(addr_4, tags)
                   ELSE match_name_fuzzy(addr_4, tags)


(* ------------- infer_node_and_boundary, local mode (170-214) ----------- *)
\* line 178-180: the node is a place candidate
IsPlaceCand(tags) ==
    \/ "capital" \in DOMAIN tags
    \/ "place" \in DOMAIN tags
    \/ "place:CN" \in DOMAIN tags
    \/ Get(tags, "amenity") = "townhall"
    \/ Get(tags, "office") = "government"

\* acceptance that forgets the place tag
AcceptNodeAnyCandidate(addr_4, tags) ==
    "capital" \in DOMAIN tags \/ match_name(addr_4, tags, TRUE)

\* line 185-186: the matched candidate gives node_id
AcceptNode(addr_4, tags) ==
    /\ "place" \in DOMAIN tags
    /\ ("capital" \in DOMAIN tags \/ match_name(addr_4, tags, TRUE))

\* line 193-194: the relation is a matching boundary
IsBoundary(addr_4, tags) ==
    /\ Get(tags, "boundary") \in {"administrative", "historic"}
    /\ match_name(addr_4, tags, FALSE)

\* promotion that asks neither for the capital tag nor for an exact boundary
PromoteMemberAnyPlace(addr_4, node_tags, tags) ==
    /\ "place" \in DOMAIN node_tags
    /\ match_name(addr_4, node_tags, FALSE)

\* line 209-210: the member node is promoted to node_id
PromoteMember(addr_4, node_tags, tags) ==
    /\ "place" \in DOMAIN node_tags
    /\ match_name(addr_4, node_tags, FALSE)
    /\ ("capital" \in DOMAIN node_tags \/ match_name(addr_4, tags, TRUE))

\* line 213: the relation loop ends at this relation
StopAtBoundary(addr_4, tags) == match_name(addr_4, tags, TRUE)

\* the state of the resolver at line 145-147 and 172
InferStart ==
    [place_cands |-> <<>>, node_id |-> -1, boundary_id |-> -1,
     node_lon |-> None, node_lat |-> None, scanned |-> 0]

\* line 174-187, from node i on
RECURSIVE node_loop(_, _, _, _)
node_loop(nodes, i, addr_4, st) ==
    IF i > Len(nodes) THEN st
    ELSE LET n == nodes[i]
             tags == n.tags
             st1 ==
               IF "name" \notin DOMAIN tags \/ ~IsPlaceCand(tags) THEN st
               ELSE LET c == [st EXCEPT !.place_cands = (n.id :> n) @@ @]
                    IN IF c.node_id < 0 /\ match_name(addr_4, tags, FALSE)
                       THEN [c EXCEPT !.node_lon = n.lon,
                                      !.node_lat = n.lat,
                                      !.node_id = IF AcceptNode(addr_4, tags)
                                                  THEN n.id ELSE @]
                       ELSE c
         IN node_loop(nodes, i + 1, addr_4, st1)

\* line 196-212, from member j on
RECURSIVE member_loop(_, _, _, _, _)
member_loop(members, j, addr_4, tags, st) ==
    IF j > Len(members) THEN st
    ELSE LET m == members[j]
         IN IF \/ m.type # "node"
               \/ m.role \notin {"label", "admin_centre"}
               \/ m.ref \notin DOMAIN st.place_cands
            THEN member_loop(members, j + 1, addr_4, tags, st)
            ELSE LET node == st.place_cands[m.ref]
                     st1 == [st EXCEPT !.node_id = -2,
                                       !.node_lon = node.lon,
                                       !.node_lat = node.lat]
                 IN IF PromoteMember(addr_4, node.tags, tags)
                    THEN [st1 EXCEPT !.node_id = node.id]
                    ELSE member_loop(members, j + 1, addr_4, tags, st1)

\* line 189-214, from relation k on; scanned is the index of the last
\* relation the loop looked at
RECURSIVE relation_loop(_, _, _, _)
relation_loop(rels, k, addr_4, st) ==
    IF k > Len(rels) THEN st
    ELSE LET r == rels[k]
             tags == r.tags
             seen == [st EXCEPT !.scanned = k]
         IN IF "name" \notin DOMAIN tags \/ ~IsBoundary(addr_4, tags)
            THEN relation_loop(rels, k + 1, addr_4, seen)
            ELSE LET st1 == [seen EXCEPT !.boundary_id = r.id]
                     st2 == member_loop(r.members, 1, addr_4, tags, st1)
                 IN IF StopAtBoundary(addr_4, tags) THEN st2
                    ELSE relation_loop(rels, k + 1, addr_4, st2)

\* line 170-214 and 292
infer_local(addr_4, root) ==
    relation_loop(root.relations, 1, addr_4,
                  node_loop(root.nodes, 1, addr_4, InferStart))

(* ---------------------- graphs of the resolver harness ----------------- *)
Seg == <<"D">>
NameD == <<"D">>
NameCD == <<"C", "D">>
NameC == <<"C">>

InferNodeTags ==
    << [name |-> NameD, place |-> "suburb"],
       [name |-> NameCD, place |-> "town"],
       [name |-> NameCD, capital |-> "yes"],
       [name |-> NameCD, place |-> "city", capital |-> "yes"],
       [name |-> NameD, amenity |-> "townhall"],
       [place |-> "village"],
       ("name:zh" :> NameD) @@ [name |-> NameC, place |-> "suburb"] >>

Member(type, ref, role) == [type |-> type, ref |-> ref, role |-> role]

InferRelKinds ==
    << [tags |-> [name |-> NameD, boundary |-> "administrative"],
        members |-> <<>>],
       [tags |-> [name |-> NameCD, boundary |-> "administrative"],
        members |-> <<Member("node", 1, "label")>>],
       [tags |-> [name |-> NameCD, boundary |-> "historic"],
        members |-> <<Member("way", 1, "outer"),
                      Member("node", 2, "admin_centre"),
                      Member("node", 1, "label")>>],
       [tags |-> ("name:zh" :> NameD)
                 @@ [name |-> NameC, boundary |-> "administrative"],
        members |-> <<>>],
       [tags |-> [official_name |-> NameD, boundary |-> "administrative"],
        members |-> <<>>],
       [tags |-> [name |-> NameD, boundary |-> "postal_code"],
        members |-> <<Member("node", 1, "label")>>],
       [tags |-> [name |-> NameC, boundary |-> "administrative"],
        members |-> <<Member("node", 1, "admin_centre")>>],
       [tags |-> [name |-> NameD, boundary |-> "administrative"],
        members |-> <<Member("node", 1, "subarea"),
                      Member("node", 2, "label")>>] >>

SeqsUpTo(S, n) == UNION {[1..k -> S] : k \in 0..n}

InferNode(kind, i) ==
    [id |-> i, lon |-> 100 + i, lat |-> 200 + i, tags |-> InferNodeTags[kind]]

InferRel(kind, k) ==
    [id |-> 10 + k, tags |-> InferRelKinds[kind].tags,
     members |-> InferRelKinds[kind].members]

InferGraph(nk, rk) ==
    [nodes |-> [i \in DOMAIN nk |-> InferNode(nk[i], i)],
     ways |-> <<>>,
     relations |-> [k \in DOMAIN rk |-> InferRel(rk[k], k)]]

(* -------------------- the pipeline at rest (pure harness) -------------- *)
NoFile == [absent |-> TRUE]

PipeIdle ==
    /\ world = 0 /\ places = <<>> /\ run = 0 /\ cache = <<>>
    /\ pc = "idle" /\ idx = 0 /\ lon = None /\ lat = None
    /\ row = <<>> /\ rows = <<>> /\ osm_root = NoFile
    /\ inferred = <<>> /\ force_update = FALSE /\ radii = <<>>
    /\ call = <<>> /\ attempt = 0 /\ resp = NoFile /\ pause = 0
    /\ sinceOk = 0 /\ df = <<>>

(* --------------- specification of the resolver, local mode ------------- *)
InitInfer ==
    /\ \E nk \in SeqsUpTo(DOMAIN InferNodeTags, MaxNodes),
          rk \in SeqsUpTo(DOMAIN InferRelKinds, MaxRels) :
         fin = [addr_4 |-> Seg, root |-> InferGraph(nk, rk)]
    /\ fout = InferStart
    /\ fpc = "nodes"
    /\ PipeIdle

\* the node loop, line 174-187
InferNodes ==
    /\ fpc = "nodes"
    /\ fout' = node_loop(fin.root.nodes, 1, fin.addr_4, fout)
    /\ fpc' = "relations"
    /\ UNCHANGED <<fin, pipeVars>>

\* the relation loop and the return, line 189-214 and 292
InferRelations ==
    /\ fpc = "relations"
    /\ fout' = relation_loop(fin.root.relations, 1, fin.addr_4, fout)
    /\ fpc' = "return"
    /\ UNCHANGED <<fin, pipeVars>>

NextInfer == InferNodes \/ InferRelations

SpecInfer == InitInfer /\ [][NextInfer]_vars


(* ----------------------- count_features (299-396) ---------------------- *)
Bool(b) == IF b THEN 1 ELSE 0

MinorRoads == {"residential", "unclassified", "service", "track", "cycleway",
               "pedestrian", "footway", "path", "steps"}

IsShop(tags) ==
    \/ "shop" \in DOMAIN tags
    \/ "cuisine" \in DOMAIN tags
    \/ Get(tags, "tourism") \in {"hotel", "apartment"}

IsSchool(tags) ==
    Get(tags, "amenity") = "school" \/ Get(tags, "education") = "school"

IsBusStop(tags) ==
    \/ "bus" \in DOMAIN tags
    \/ Get(tags, "highway") = "bus_stop"
    \/ "public_transport" \in DOMAIN tags

\* line 340-353: what a way adds to each amenity counter
WayAmenities(tags) ==
    [gov    |-> Bool(Get(tags, "amenity") = "townhall"
                     \/ Get(tags, "office") = "government"),
     health |-> Bool(Get(tags, "amenity") \in {"hospital", "clinic"}),
     school |-> Bool(IsSchool(tags)),
     police |-> Bool(Get(tags, "amenity") = "police"),
     post   |-> Bool(Get(tags, "amenity") = "post_office"),
     bank   |-> Bool(Get(tags, "amenity") = "bank"),
     shop   |-> Bool(IsShop(tags))]

\* line 370-383: what a node adds to each amenity counter; the school
\* branch of line 374-375 adds to the police counter
NodeAmenities(tags) ==
    [gov    |-> Bool(Get(tags, "amenity") = "townhall"
                     \/ Get(tags, "office") = "government"),
     health |-> Bool(Get(tags, "amenity") \in {"hospital", "clinic"}),
     school |-> 0,
     police |-> Bool(IsSchool(tags)) + Bool(Get(tags, "amenity") = "police"),
     post   |-> Bool(Get(tags, "amenity") = "post_office"),
     bank   |-> Bool(Get(tags, "amenity") = "bank"),
     shop   |-> Bool(IsShop(tags))]

\* line 326-331: what the highway tag of a way adds to the road counters
HighwayRoads(roads, tags) ==
    IF "highway" \notin DOMAIN tags THEN roads
    ELSE IF tags["highway"] \in DOMAIN roads
         THEN [roads EXCEPT ![tags["highway"]] = @ + 1]
         ELSE IF tags["highway"] \in {"residential", "unclassified"}
              THEN [roads EXCEPT !["res_uncl"] = @ + 1]
              ELSE roads

\* line 354-359 and 384-389: bus stops, parking and fuel of a way or node
TransitRoads(roads, tags) ==
    [roads EXCEPT !["bus_stop"] = @ + Bool(IsBusStop(tags)),
                  !["parking"] = @ + Bool(Get(tags, "amenity") = "parking"),
                  !["fuel"] = @ + Bool(Get(tags, "amenity") = "fuel")]

\* line 362-364 and 392-394
PresenceLanduse(tags) == {"leisure", "tourism", "waterway"} \cap DOMAIN tags

\* line 300-322; way is the loop variable of line 324, unbound before the
\* first iteration; exc is the exception that ended the function
CountStart ==
    [exc |-> "none", way |-> None,
     places |-> {},
     roads |-> [trunk |-> 0, primary |-> 0, secondary |-> 0, tertiary |-> 0,
                res_uncl |-> 0, bus_stop |-> 0, parking |-> 0, fuel |-> 0],
     road_types |-> {},
     amenities |-> [gov |-> 0, health |-> 0, school |-> 0, police |-> 0,
                    post |-> 0, bank |-> 0, shop |-> 0],
     buildings |-> {},
     landuse_types |-> {}]

\* one iteration of the loop of line 324-364
CountWay(st, way) ==
    LET tags == way.tags
        h == Get(tags, "highway")
        inc == WayAmenities(tags)
    IN IF ("landuse" \in DOMAIN tags \/ "natrual" \in DOMAIN tags)
          /\ "landuse" \notin DOMAIN tags
       THEN [st EXCEPT !.exc = "KeyError", !.way = way.id]
       ELSE [st EXCEPT
              !.way = way.id,
              !.roads = TransitRoads(HighwayRoads(@, tags), tags),
              !.road_types = IF h \in MinorRoads THEN @ \cup {h} ELSE @,
              !.buildings = IF "building" \in DOMAIN tags
                               \/ "man_made" \in DOMAIN tags
                            THEN @ \cup {way.id} ELSE @,
              !.amenities = [k \in DOMAIN @ |-> @[k] + inc[k]],
              !.landuse_types =
                  (IF "landuse" \in DOMAIN tags THEN @ \cup {tags["landuse"]}
                   ELSE @) \cup PresenceLanduse(tags)]

\* one iteration of the loop of line 366-394; line 391 reads the loop
\* variable of the way loop
CountNode(st, node) ==
    LET tags == node.tags
        inc == NodeAmenities(tags)
    IN IF "man_made" \in DOMAIN tags /\ st.way = None
       THEN [st EXCEPT !.exc = "NameError"]
       ELSE [st EXCEPT
              !.places = IF "place" \in DOMAIN tags /\ "name" \in DOMAIN tags
                         THEN @ \cup {node.id} ELSE @,
              !.amenities = [k \in DOMAIN @ |-> @[k] + inc[k]],
              !.roads = TransitRoads(@, tags),
              !.buildings = IF "man_made" \in DOMAIN tags
                            THEN @ \cup {st.way} ELSE @,
              !.landuse_types = @ \cup PresenceLanduse(tags)]

RECURSIVE way_loop(_, _, _)
way_loop(ways, i, st) ==
    IF i > Len(ways) \/ st.exc # "none" THEN st
    ELSE way_loop(ways, i + 1, CountWay(st, ways[i]))

RECURSIVE count_node_loop(_, _, _)
count_node_loop(nodes, i, st) ==
    IF i > Len(nodes) \/ st.exc # "none" THEN st
    ELSE count_node_loop(nodes, i + 1, CountNode(st, nodes[i]))

\* line 396: the tuple returned
Counted(st) ==
    [exc |-> st.exc, roads |-> st.roads, amenities |-> st.amenities,
     pcnt |-> Cardinality(st.places), bcnt |-> Cardinality(st.buildings),
     rtnt |-> Cardinality(st.road_types),
     ltnt |-> Cardinality(st.landuse_types)]

count_features(osm_root_) ==
    Counted(count_node_loop(osm_root_.nodes, 1,
                            way_loop(osm_root_.ways, 1, CountStart)))

\* line 539-546: the fields one radius adds to the row
RowFields(c, r) ==
    IF r = 3
    THEN [road_trunk_3km |-> c.roads.trunk,
          road_primary_3km |-> c.roads.primary,
          road_secondary_3km |-> c.roads.secondary,
          road_tertiary_3km |-> c.roads.tertiary,
          road_res_uncl_3km |-> c.roads.res_uncl,
          road_bus_stop_3km |-> c.roads.bus_stop,
          road_parking_3km |-> c.roads.parking,
          road_fuel_3km |-> c.roads.fuel,
          amenity_gov_3km |-> c.amenities.gov,
          amenity_health_3km |-> c.amenities.health,
          amenity_school_3km |-> c.amenities.school,
          amenity_police_3km |-> c.amenities.police,
          amenity_post_3km |-> c.amenities.post,
          amenity_bank_3km |-> c.amenities.bank,
          amenity_shop_3km |-> c.amenities.shop,
          places_total_3km |-> c.pcnt,
          buildings_total_3km |-> c.bcnt,
          road_types_3km |-> c.rtnt,
          landuse_types_3km |-> c.ltnt]
    ELSE [road_trunk_1km |-> c.roads.trunk,
          road_primary_1km |-> c.roads.primary,
          road_secondary_1km |-> c.roads.secondary,
          road_tertiary_1km |-> c.roads.tertiary,
          road_res_uncl_1km |-> c.roads.res_uncl,
          road_bus_stop_1km |-> c.roads.bus_stop,
          road_parking_1km |-> c.roads.parking,
          road_fuel_1km |-> c.roads.fuel,
          amenity_gov_1km |-> c.amenities.gov,
          amenity_health_1km |-> c.amenities.health,
          amenity_school_1km |-> c.amenities.school,
          amenity_police_1km |-> c.amenities.police,
          amenity_post_1km |-> c.amenities.post,
          amenity_bank_1km |-> c.amenities.bank,
          amenity_shop_1km |-> c.amenities.shop,
          places_total_1km |-> c.pcnt,
          buildings_total_1km |-> c.bcnt,
          road_types_1km |-> c.rtnt,
          landuse_types_1km |-> c.ltnt]

(* ----------------------- compute_score (403-460) ----------------------- *)
\* arithmetic of Python and numpy on a value that may be NaN
Plus(a, b) == IF a = NaN \/ b = NaN THEN NaN ELSE a + b

Times(a, k) == IF a = NaN THEN NaN ELSE a * k

Positive(a) == a # NaN /\ a > 0

\* cap without the ceiling
cap_unbounded(x, m) == x

\* line 403-404: min(x, m) keeps x unless m < x, so it keeps a NaN
cap(x, m) == IF x = NaN THEN NaN ELSE IF m < x THEN m ELSE x

\* line 409-418, in tenths
score_1(r) ==
    cap(Plus(Bool(r["node"] > 0) * 7 * Scale
             + (IF r["boundary"] > 0
                THEN 8 * Scale + Bool(r["node"] = -1) * 7 * Scale
                ELSE 0),
             Times(cap(r["places_total_3km"], 5), Scale)),
        20 * Scale)

\* line 420-435, in tenths
score_2(r) ==
    LET major == Plus(Plus(r["road_trunk_3km"], r["road_primary_3km"]),
                      r["road_secondary_3km"])
        base == Plus(Plus(Bool(Positive(major)) * 5 * Scale,
                          Times(cap(r["road_tertiary_3km"], 5), Scale)),
                     Plus(Times(r["road_res_uncl_1km"], 3),
                          Times(r["road_res_uncl_3km"], 2)))
        extra == Bool(Positive(r["road_bus_stop_3km"])) * 2 * Scale
                 + Bool(Positive(r["road_parking_3km"])) * 2 * Scale
                 + Bool(Positive(r["road_fuel_3km"])) * 2 * Scale
    IN cap(Plus(Plus(cap(base, 20 * Scale), extra),
                Times(cap(r["road_types_3km"], 4), Scale)),
           30 * Scale)

\* line 437-452, in tenths
score_3(r) ==
    cap(Plus(Bool(Positive(r["amenity_gov_3km"])) * 5 * Scale
             + Bool(Positive(r["amenity_health_1km"])) * 5 * Scale
             + Bool(Positive(r["amenity_school_1km"])) * 5 * Scale
             + Bool(Positive(r["amenity_police_1km"])) * 5 * Scale
             + Bool(Positive(r["amenity_post_1km"])) * 2 * Scale
             + Bool(Positive(r["amenity_bank_1km"])) * 2 * Scale,
             Times(cap(r["amenity_shop_1km"], 6), Scale)),
        30 * Scale)

\* line 454-458, in tenths
score_4(r) ==
    cap(Plus(cap(Plus(r["buildings_total_1km"], r["buildings_total_3km"]),
                 12 * Scale),
             Times(cap(r["landuse_types_3km"], 8), Scale)),
        20 * Scale)

compute_score(r) == <<score_1(r), score_2(r), score_3(r), score_4(r)>>

\* the columns compute_score reads
ScoreColumns ==
    {"node", "boundary", "places_total_3km", "road_trunk_3km",
     "road_primary_3km", "road_secondary_3km", "road_tertiary_3km",
     "road_res_uncl_1km", "road_res_uncl_3km", "road_bus_stop_3km",
     "road_parking_3km", "road_fuel_3km", "road_types_3km",
     "amenity_gov_3km", "amenity_health_1km", "amenity_school_1km",
     "amenity_police_1km", "amenity_post_1km", "amenity_bank_1km",
     "amenity_shop_1km", "buildings_total_1km", "buildings_total_3km",
     "landuse_types_3km"}

\* line 565: DataFrame.sum(axis=1) leaves the NaN out
score_sum(scores) ==
    LET v(i) == IF scores[i] = NaN THEN 0 ELSE scores[i]
    IN v(1) + v(2) + v(3) + v(4)


(* ------------------ specification of the feature counter --------------- *)
CountWayTags ==
    << [highway |-> "primary"],
       [highway |-> "residential"],
       [amenity |-> "school", building |-> "school"],
       [highway |-> "bus_stop", education |-> "school"],
       [landuse |-> "retail", shop |-> "mall"],
       [natrual |-> "wood"] >>

CountNodeTags ==
    << [amenity |-> "school"],
       [education |-> "school", amenity |-> "police"],
       [amenity |-> "police"],
       [man_made |-> "tower"],
       [place |-> "suburb", name |-> NameD],
       [amenity |-> "bank", tourism |-> "hotel"] >>

CountGraph(wk, nk) ==
    [nodes |-> [i \in DOMAIN nk |->
                  [id |-> i, lon |-> 100 + i, lat |-> 200 + i,
                   tags |-> CountNodeTags[nk[i]]]],
     ways |-> [i \in DOMAIN wk |-> [id |-> 20 + i, tags |-> CountWayTags[wk[i]]]],
     relations |-> <<>>]

InitCount ==
    /\ \E wk \in SeqsUpTo(DOMAIN CountWayTags, MaxWays),
          nk \in SeqsUpTo(DOMAIN CountNodeTags, MaxNodes) :
         fin = CountGraph(wk, nk)
    /\ fout = CountStart
    /\ fpc = "ways"
    /\ PipeIdle

\* the way loop, line 324-364
CountWays ==
    /\ fpc = "ways"
    /\ fout' = way_loop(fin.ways, 1, fout)
    /\ fpc' = "nodes"
    /\ UNCHANGED <<fin, pipeVars>>

\* the node loop and the return, line 366-396
CountNodes ==
    /\ fpc = "nodes"
    /\ fout' = Counted(count_node_loop(fin.nodes, 1, fout))
    /\ fpc' = "return"
    /\ UNCHANGED <<fin, pipeVars>>

\* the counts as the row of a place whose two graphs are this graph and
\* whose resolution found nothing, scored (line 539-549 and 560)
CountScore ==
    /\ fpc = "return"
    /\ fout.exc = "none"
    /\ fout' = [counted |-> fout,
                scores |-> compute_score([node |-> -1, boundary |-> -1]
                                         @@ RowFields(fout, 3)
                                         @@ RowFields(fout, 1))]
    /\ fpc' = "scored"
    /\ UNCHANGED <<fin, pipeVars>>

NextCount == CountWays \/ CountNodes \/ CountScore

SpecCount == InitCount /\ [][NextCount]_vars

(* ------------------- specification of the scoring engine --------------- *)
PresenceColumns ==
    {"road_trunk_3km", "road_primary_3km", "road_secondary_3km",
     "road_bus_stop_3km", "road_parking_3km", "road_fuel_3km",
     "amenity_gov_3km", "amenity_health_1km", "amenity_school_1km",
     "amenity_police_1km", "amenity_post_1km", "amenity_bank_1km"}

ColumnGroup(f) ==
    IF f \in {"node", "boundary", "places_total_3km"} THEN 1
    ELSE IF f \in {"buildings_total_1km", "buildings_total_3km",
                   "landuse_types_3km"} THEN 4
    ELSE IF SubSeq(f, 1, 4) = "road" THEN 2 ELSE 3

\* the values a column takes in the enumerated rows: both sentinels and a
\* real id, absence and presence, a count under and one over every cap
ColumnValues(f) ==
    IF f = "node" THEN {-2, -1, 5}
    ELSE IF f = "boundary" THEN {-1, 7}
    ELSE IF f \in PresenceColumns THEN {0, 1}
    ELSE {0, 2, MaxCount}

ColumnLow(f) == IF f \in {"node", "boundary"} THEN -1 ELSE 0

ColumnHigh(f) ==
    IF f = "node" THEN 5 ELSE IF f = "boundary" THEN 7 ELSE MaxCount

\* the columns of sub-score g that the enumeration varies
Varied(g, S) == {f \in S : ColumnGroup(f) = g}

\* rows that vary the columns of one sub-score in every way while each other
\* sub-score has all its columns low or all high
InitScore ==
    /\ \E g \in 1..4, p \in [1..4 -> BOOLEAN] :
         \E ids \in [Varied(g, {"node", "boundary"}) -> {-2, -1, 5, 7}],
            pa \in [Varied(g, PresenceColumns) -> {0, 1}],
            ca \in [Varied(g, ScoreColumns
                              \ (PresenceColumns \cup {"node", "boundary"}))
                    -> {0, 2, MaxCount}] :
           /\ \A f \in DOMAIN ids : ids[f] \in ColumnValues(f)
           /\ fin = ids @@ pa @@ ca
                    @@ [f \in ScoreColumns |->
                          IF p[ColumnGroup(f)] THEN ColumnHigh(f)
                          ELSE ColumnLow(f)]
    /\ fout = [scores |-> <<>>, score |-> 0]
    /\ fpc = "apply"
    /\ PipeIdle

\* line 560: compute_score on the row
ScoreApply ==
    /\ fpc = "apply"
    /\ fout' = [fout EXCEPT !.scores = compute_score(fin)]
    /\ fpc' = "sum"
    /\ UNCHANGED <<fin, pipeVars>>

\* line 565: the total
ScoreSum ==
    /\ fpc = "sum"
    /\ fout' = [fout EXCEPT !.score = score_sum(fout.scores)]
    /\ fpc' = "scored"
    /\ UNCHANGED <<fin, pipeVars>>

NextScore == ScoreApply \/ ScoreSum

SpecScore == InitScore /\ [][NextScore]_vars


(* ------------------------- the remote database ------------------------- *)
\* the coordinate the input file gives for line i
InputCoord(i) == <<10 * i, 20 * i>>

\* where the place node of line i lies: off the input coordinate in world
\* 1, on it in world 2 (world 3 has no place node and no boundary)
PlaceCoord(w, i) == IF w = 1 THEN <<10 * i, 20 * i + 1>> ELSE InputCoord(i)

PlaceNode(w, i) ==
    [id |-> 1, lon |-> PlaceCoord(w, i)[1], lat |-> PlaceCoord(w, i)[2],
     tags |-> IF w = 1 THEN [name |-> NameD, place |-> "town", capital |-> "8"]
              ELSE [name |-> NameD, place |-> "suburb"]]

SchoolNode(i) ==
    [id |-> 2, lon |-> 10 * i, lat |-> 20 * i, tags |-> [amenity |-> "school"]]

BoundaryRel ==
    [id |-> 30, tags |-> [name |-> NameCD, boundary |-> "administrative"],
     members |-> <<Member("node", 1, "label")>>]

\* what the remote database holds within radius_km of centre
Dataset(w, i, centre, radius_km) ==
    [nodes |-> (IF w # 3 /\ (radius_km >= 3 \/ centre = PlaceCoord(w, i))
                THEN <<PlaceNode(w, i)>> ELSE <<>>) \o <<SchoolNode(i)>>,
     ways |-> <<[id |-> 20, tags |-> [highway |-> "primary"]]>>
              \o (IF radius_km >= 3
                  THEN <<[id |-> 21, tags |-> [highway |-> "residential"]],
                         [id |-> 22, tags |-> [building |-> "yes"]]>>
                  ELSE <<>>),
     relations |-> IF w # 3 /\ radius_km >= 3 THEN <<BoundaryRel>> ELSE <<>>]

(* ------------- infer_node_and_boundary, remote mode (216-292) ---------- *)
NameKeys == {"name", "alt_name", "official_name", "short_name"}

HasNameLike(addr_4, tags, keys) ==
    \E k \in keys : k \in DOMAIN tags /\ IsSubstring(addr_4, tags[k])

\* line 225-243: the node clauses of the query
QueryNode(addr_4, tags) ==
    \/ /\ "capital" \in DOMAIN tags
       /\ "place" \in DOMAIN tags
       /\ HasNameLike(addr_4, tags, NameKeys)
    \/ "place" \in DOMAIN tags /\ HasNameLike(addr_4, tags, {"old_name"})

\* line 244-273: the relation clauses of the query
QueryRelation(addr_4, tags) ==
    /\ Get(tags, "boundary") \in {"administrative", "historic"}
    /\ HasNameLike(addr_4, tags, NameKeys \cup {"old_name"})

\* the answer of the remote database to the query of line 222-276
QueryAnswer(addr_4, db) ==
    [nodes |-> SelectSeq(db.nodes, LAMBDA n : QueryNode(addr_4, n.tags)),
     ways |-> <<>>,
     relations |-> SelectSeq(db.relations,
                             LAMBDA r : QueryRelation(addr_4, r.tags))]

\* what infer_node_and_boundary returns
Inferred(node_id, boundary_id, nlon, nlat) ==
    [node_id |-> node_id, boundary_id |-> boundary_id,
     nlon |-> nlon, nlat |-> nlat]

\* line 282-292: the first node and the first relation of the answer
infer_remote(root) ==
    Inferred(IF root.nodes = <<>> THEN -1 ELSE root.nodes[1].id,
             IF root.relations = <<>> THEN -1 ELSE root.relations[1].id,
             IF root.nodes = <<>> THEN None ELSE root.nodes[1].lon,
             IF root.nodes = <<>> THEN None ELSE root.nodes[1].lat)

\* a constant sleep in place of the linear one
BackoffFlat(attempt_) == 2

(* --------------------------- safe_post (30-44) ------------------------- *)
\* line 43: the sleep after failed attempt number attempt
Backoff(attempt_) == 2 * attempt_

\* line 31: the loop goes on after this attempt failed
Retry(attempt_) == attempt_ < max_retry

(* ------------------------- get_osm_data (110-135) ---------------------- *)
XmlNone == [none |-> TRUE]

\* the cache test with the flag inverted
CacheHitInverted(file, force_update_) == file # NoFile /\ force_update_

\* line 111: the cached file is returned
CacheHit(file, force_update_) == file # NoFile /\ ~force_update_

(* ------------------------ process_places (467-570) --------------------- *)
LineKinds == {"six", "four", "bad"}

\* the comparison with "and" in place of "or"
CorrectedBoth(nlon, nlat, lon_, lat_) ==
    (nlon # None /\ nlat # None) /\ (nlon # lon_ /\ nlat # lat_)

\* line 520: the resolver reports another coordinate
Corrected(nlon, nlat, lon_, lat_) ==
    (nlon # None /\ nlat # None) /\ (nlon # lon_ \/ nlat # lat_)

\* line 528: the radii of the loop, in order
RadiusOrder == <<3, 1>>

\* line 557: the table of the rows; a key a row lacks is NaN
Columns(rs) == UNION {DOMAIN rs[i] : i \in DOMAIN rs}

Filled(r, cols) == [f \in cols |-> IF f \in DOMAIN r THEN r[f] ELSE NaN]

\* line 560-565: the row with its four scores and the total
Scored(r) ==
    LET sc == compute_score(r)
    IN [row |-> r, scores |-> sc, score |-> score_sum(sc)]

NoCall == [kind |-> "none"]

Init ==
    /\ fin = <<>> /\ fout = <<>> /\ fpc = "idle"
    /\ world \in 1..3
    /\ places \in SeqsUpTo(LineKinds, MaxPlaces)
    /\ run = 1
    /\ cache = [i \in 1..MaxPlaces |-> [r \in {1, 3} |-> NoFile]]
    /\ pc = "line" /\ idx = 1
    /\ lon = None /\ lat = None
    /\ row = <<>> /\ rows = <<>>
    /\ osm_root = XmlNone
    /\ inferred = Inferred(-1, -1, None, None)
    /\ force_update = FALSE
    /\ radii = <<>>
    /\ call = NoCall
    /\ attempt = 0
    /\ resp = XmlNone
    /\ pause = 0
    /\ sinceOk = FetchPause
    /\ df = <<>>

\* time passes: the step sleeps d seconds
Sleep(d) ==
    /\ pause' = d
    /\ sinceOk' = Min(sinceOk + d, FetchPause)

NoSleep == pause' = 0 /\ sinceOk' = sinceOk

\* line 473-497: the line is skipped (wrong token count, or four tokens,
\* for which gd_map raises and the exception is caught)
SkipLine ==
    /\ pc = "line" /\ idx <= Len(places)
    /\ places[idx] # "six"
    /\ idx' = idx + 1
    /\ NoSleep
    /\ UNCHANGED <<funVars, world, places, run, cache, pc, lon, lat, row,
                   rows, osm_root, inferred, force_update, radii, call,
                   attempt, resp, df>>

\* line 473-507: six tokens, the coordinate and the row
ParseLine ==
    /\ pc = "line" /\ idx <= Len(places)
    /\ places[idx] = "six"
    /\ lon' = InputCoord(idx)[1] /\ lat' = InputCoord(idx)[2]
    /\ row' = [addr_4 |-> Seg, lon |-> InputCoord(idx)[1],
               lat |-> InputCoord(idx)[2]]
    /\ pc' = "existence"
    /\ NoSleep
    /\ UNCHANGED <<funVars, world, places, run, cache, idx, rows, osm_root,
                   inferred, force_update, radii, call, attempt, resp, df>>

\* line 510-514: the 3 km file decides the mode of the resolver
Existence ==
    /\ pc = "existence"
    /\ IF cache[idx][3] # NoFile
       THEN /\ call' = [kind |-> "dataset", lon |-> lon, lat |-> lat, r |-> 3,
                        force_update |-> FALSE, ret |-> "existence_ret"]
            /\ pc' = "get_osm_data"
       ELSE /\ call' = NoCall
            /\ pc' = "infer"
    /\ osm_root' = XmlNone
    /\ force_update' = FALSE
    /\ NoSleep
    /\ UNCHANGED <<funVars, world, places, run, cache, idx, lon, lat, row,
                   rows, inferred, radii, attempt, resp, df>>

\* line 111-112: the cached file is loaded and returned
GetCached ==
    /\ pc = "get_osm_data"
    /\ CacheHit(cache[idx][call.r], call.force_update)
    /\ resp' = cache[idx][call.r].graph
    /\ pc' = call.ret
    /\ NoSleep
    /\ UNCHANGED <<funVars, world, places, run, cache, idx, lon, lat, row,
                   rows, osm_root, inferred, force_update, radii, call,
                   attempt, df>>

\* line 114-128: the query is built and safe_overpass_xml called
GetDownload ==
    /\ pc = "get_osm_data"
    /\ ~CacheHit(cache[idx][call.r], call.force_update)
    /\ pc' = "safe_post"
    /\ attempt' = 1
    /\ NoSleep
    /\ UNCHANGED <<funVars, world, places, run, cache, idx, lon, lat, row,
                   rows, osm_root, inferred, force_update, radii, call,
                   resp, df>>

\* the body the remote service sends for the call
Payload ==
    IF call.kind = "dataset"
    THEN Dataset(world, idx, <<call.lon, call.lat>>, call.r)
    ELSE QueryAnswer(Seg, Dataset(world, idx, <<call.lon, call.lat>>, 15))

\* where safe_overpass_xml returns to
AfterPost == IF call.kind = "dataset" THEN "get_osm_data_ret" ELSE "infer_ret"

\* line 33-40: the request succeeds with a 2xx status
PostOk ==
    /\ pc = "safe_post"
    /\ resp' = Payload
    /\ pc' = AfterPost
    /\ attempt' = 0
    /\ pause' = 0 /\ sinceOk' = 0
    /\ UNCHANGED <<funVars, world, places, run, cache, idx, lon, lat, row,
                   rows, osm_root, inferred, force_update, radii, call, df>>

\* line 33-44: the request fails (a non-2xx status or a network error, both
\* a RequestException), the loop sleeps and goes on or returns None
PostFail ==
    /\ pc = "safe_post"
    /\ \E error \in {"status", "network"} :
         /\ Sleep(Backoff(attempt))
         /\ IF Retry(attempt)
            THEN attempt' = attempt + 1 /\ pc' = pc /\ resp' = resp
            ELSE attempt' = 0 /\ pc' = AfterPost /\ resp' = XmlNone
    /\ UNCHANGED <<funVars, world, places, run, cache, idx, lon, lat, row,
                   rows, osm_root, inferred, force_update, radii, call, df>>

\* line 129-135: None, or the file is saved and the function pauses
GetReturn ==
    /\ pc = "get_osm_data_ret"
    /\ IF resp = XmlNone
       THEN cache' = cache /\ NoSleep
       ELSE /\ cache' = [cache EXCEPT ![idx][call.r] =
                           [graph |-> resp, centre |-> <<call.lon, call.lat>>]]
            /\ Sleep(FetchPause)
    /\ pc' = call.ret
    /\ UNCHANGED <<funVars, world, places, run, idx, lon, lat, row, rows,
                   osm_root, inferred, force_update, radii, call, attempt,
                   resp, df>>

\* line 515: the cached 3 km file is parsed
ExistenceParsed ==
    /\ pc = "existence_ret"
    /\ osm_root' = resp
    /\ call' = NoCall
    /\ pc' = "infer"
    /\ NoSleep
    /\ UNCHANGED <<funVars, world, places, run, cache, idx, lon, lat, row,
                   rows, inferred, force_update, radii, attempt, resp, df>>

\* line 519 with a graph: local mode
InferLocal ==
    /\ pc = "infer"
    /\ osm_root # XmlNone
    /\ LET st == infer_local(Seg, osm_root)
       IN inferred' = Inferred(st.node_id, st.boundary_id,
                               st.node_lon, st.node_lat)
    /\ pc' = "correct"
    /\ NoSleep
    /\ UNCHANGED <<funVars, world, places, run, cache, idx, lon, lat, row,
                   rows, osm_root, force_update, radii, call, attempt, resp,
                   df>>

\* line 519 without a graph: remote mode, line 216-277
InferRemote ==
    /\ pc = "infer"
    /\ osm_root = XmlNone
    /\ IF OFF_LINE
       THEN /\ inferred' = Inferred(-1, -1, None, None)
            /\ pc' = "correct"
            /\ UNCHANGED <<call, attempt>>
       ELSE /\ call' = [kind |-> "resolver", lon |-> lon, lat |-> lat,
                        r |-> 15, force_update |-> FALSE, ret |-> "infer_ret"]
            /\ attempt' = 1
            /\ pc' = "safe_post"
            /\ UNCHANGED inferred
    /\ NoSleep
    /\ UNCHANGED <<funVars, world, places, run, cache, idx, lon, lat, row,
                   rows, osm_root, force_update, radii, resp, df>>

\* line 278-292: the answer of the remote query
InferReturn ==
    /\ pc = "infer_ret"
    /\ inferred' = IF resp = XmlNone THEN Inferred(-1, -1, None, None)
                   ELSE infer_remote(resp)
    /\ pc' = "correct"
    /\ NoSleep
    /\ UNCHANGED <<funVars, world, places, run, cache, idx, lon, lat, row,
                   rows, osm_root, force_update, radii, call, attempt, resp,
                   df>>

\* line 520-528: the corrected coordinate replaces the working one
Correct ==
    /\ pc = "correct"
    /\ IF Corrected(inferred.nlon, inferred.nlat, lon, lat)
       THEN /\ lon' = inferred.nlon /\ lat' = inferred.nlat
            /\ row' = [row EXCEPT !.lon = inferred.nlon,
                                  !.lat = inferred.nlat]
            /\ force_update' = TRUE
       ELSE UNCHANGED <<lon, lat, row, force_update>>
    /\ radii' = RadiusOrder
    /\ pc' = "radius"
    /\ NoSleep
    /\ UNCHANGED <<funVars, world, places, run, cache, idx, rows, osm_root,
                   inferred, call, attempt, resp, df>>

\* line 528-532: the next radius of the loop
Radius ==
    /\ pc = "radius"
    /\ IF radii = <<>>
       THEN pc' = "append" /\ call' = call
       ELSE /\ call' = [kind |-> "dataset", lon |-> lon, lat |-> lat,
                        r |-> Head(radii), force_update |-> force_update,
                        ret |-> "radius_ret"]
            /\ pc' = "get_osm_data"
    /\ NoSleep
    /\ UNCHANGED <<funVars, world, places, run, cache, idx, lon, lat, row,
                   rows, osm_root, inferred, force_update, radii, attempt,
                   resp, df>>

\* line 533-546: break on None, else the counts go into the row; an
\* exception of count_features leaves process_places
RadiusCounted ==
    /\ pc = "radius_ret"
    /\ IF resp = XmlNone
       THEN pc' = "append" /\ UNCHANGED <<row, radii>>
       ELSE LET c == count_features(resp)
            IN IF c.exc # "none"
               THEN pc' = "exception" /\ UNCHANGED <<row, radii>>
               ELSE /\ row' = RowFields(c, Head(radii)) @@ row
                    /\ radii' = Tail(radii)
                    /\ pc' = "radius"
    /\ NoSleep
    /\ UNCHANGED <<funVars, world, places, run, cache, idx, lon, lat, rows,
                   osm_root, inferred, force_update, call, attempt, resp, df>>

\* line 548-551: the row is appended
AppendRow ==
    /\ pc = "append"
    /\ rows' = Append(rows, [node |-> inferred.node_id,
                             boundary |-> inferred.boundary_id] @@ row)
    /\ idx' = idx + 1
    /\ pc' = "line"
    /\ NoSleep
    /\ UNCHANGED <<funVars, world, places, run, cache, lon, lat, row,
                   osm_root, inferred, force_update, radii, call, attempt,
                   resp, df>>

\* line 553-555: no row, exit(1)
NoRecords ==
    /\ pc = "line" /\ idx > Len(places)
    /\ rows = <<>>
    /\ pc' = "exit1"
    /\ NoSleep
    /\ UNCHANGED <<funVars, world, places, run, cache, idx, lon, lat, row,
                   rows, osm_root, inferred, force_update, radii, call,
                   attempt, resp, df>>

\* line 557-570: the table, the scores and the export; compute_score
\* raises KeyError on a column no row has
ScoreRows ==
    /\ pc = "line" /\ idx > Len(places)
    /\ rows # <<>>
    /\ IF ScoreColumns \subseteq Columns(rows)
       THEN /\ df' = [i \in DOMAIN rows |-> Scored(Filled(rows[i], Columns(rows)))]
            /\ pc' = "done"
       ELSE /\ df' = df
            /\ pc' = "exception"
    /\ NoSleep
    /\ UNCHANGED <<funVars, world, places, run, cache, idx, lon, lat, row,
                   rows, osm_root, inferred, force_update, radii, call,
                   attempt, resp, df>>

\* the program is started again on the same input file and cache directory
Rerun ==
    /\ pc \in {"done", "exit1", "exception"}
    /\ run < MaxRuns
    /\ run' = run + 1
    /\ pc' = "line" /\ idx' = 1
    /\ lon' = None /\ lat' = None
    /\ row' = <<>> /\ rows' = <<>>
    /\ osm_root' = XmlNone
    /\ inferred' = Inferred(-1, -1, None, None)
    /\ force_update' = FALSE
    /\ radii' = <<>>
    /\ call' = NoCall
    /\ attempt' = 0
    /\ resp' = XmlNone
    /\ pause' = 0
    /\ sinceOk' = FetchPause
    /\ df' = <<>>
    /\ UNCHANGED <<funVars, world, places, cache>>

Next ==
    \/ SkipLine \/ ParseLine \/ Existence \/ GetCached \/ GetDownload
    \/ PostOk \/ PostFail \/ GetReturn \/ ExistenceParsed \/ InferLocal
    \/ InferRemote \/ InferReturn \/ Correct \/ Radius \/ RadiusCounted
    \/ AppendRow \/ NoRecords \/ ScoreRows \/ Rerun

Spec == Init /\ [][Next]_vars


(* ============================== claims ================================= *)

(* --- C1 ---------------------------------------------------------------- *)
\* C1: for every row of non-negative feature counts and every node and
\* boundary id, the sentinels -1 and -2 included, compute_score gives
\* s1 <= 20, s2 <= 30, s3 <= 30 and s4 <= 20, and the total of the row is
\* s1 + s2 + s3 + s4 and at most 100 (all in tenths of a point).
ScoresBounded ==
    /\ fpc \in {"sum", "scored"} =>
         /\ fout.scores[1] <= 20 * Scale
         /\ fout.scores[2] <= 30 * Scale
         /\ fout.scores[3] <= 30 * Scale
         /\ fout.scores[4] <= 20 * Scale
    /\ fpc = "scored" =>
         /\ fout.score = fout.scores[1] + fout.scores[2]
                         + fout.scores[3] + fout.scores[4]
         /\ fout.score <= 100 * Scale

\* a row with the sentinel node id whose every sub-score is at its ceiling
ScoresBoundedWitness ==
    /\ fpc = "scored"
    /\ fin["node"] = -1
    /\ fin["road_res_uncl_1km"] = MaxCount
    /\ fout.scores = <<20 * Scale, 30 * Scale, 30 * Scale, 20 * Scale>>
    /\ fout.score = 100 * Scale

(* --- C2 ---------------------------------------------------------------- *)
\* C2: whatever fetches fail, no exception escapes process_places: a
\* failed download ends the radius loop of its place only and the run goes
\* on through scoring and export.
NoExceptionEscapes == pc # "exception"

(* --- C3 ---------------------------------------------------------------- *)
\* C3: when get_osm_data finds the file of (place, radius) and force_update
\* is false it returns the cached dataset, issues no request, writes no
\* file and does not pause; a dataset request is only in progress for a
\* file that is absent or under force_update.
CacheHitIsLocal ==
    /\ [][(/\ pc = "get_osm_data"
           /\ cache[idx][call.r] # NoFile
           /\ ~call.force_update)
          => (/\ pc' = call.ret
              /\ resp' = cache[idx][call.r].graph
              /\ cache' = cache
              /\ attempt' = attempt
              /\ pause' = 0
              /\ sinceOk' = sinceOk)]_vars
    /\ [](pc = "safe_post" /\ call.kind = "dataset"
          => cache[idx][call.r] = NoFile \/ call.force_update)

\* the radius loop of a later run got a dataset back without any pause
CacheHitIsLocalWitness ==
    /\ run = 2 /\ pc = "radius_ret"
    /\ ~call.force_update
    /\ resp = cache[idx][call.r].graph
    /\ pause = 0 /\ attempt = 0

(* --- C4 ---------------------------------------------------------------- *)
\* C4: safe_post makes at most 5 attempts; an attempt that succeeds returns
\* the response at once; failed attempt number n is followed by a sleep of
\* 2 * n seconds; None is returned only after the fifth failure, for a bad
\* status and a network error alike, and no exception leaves safe_post.
SafePostBounded ==
    /\ [](pc = "safe_post" => attempt \in 1..5)
    /\ [][pc = "safe_post"
          => \/ /\ pause' = 0
                /\ pc' = AfterPost
                /\ resp' # XmlNone
             \/ /\ pause' = 2 * attempt
                /\ attempt < 5
                /\ pc' = "safe_post"
                /\ attempt' = attempt + 1
             \/ /\ pause' = 2 * attempt
                /\ attempt = 5
                /\ pc' = AfterPost
                /\ resp' = XmlNone]_vars

\* the fifth attempt failed and None came back after a sleep of 10 s
SafePostBoundedWitness ==
    /\ pc \in {"get_osm_data_ret", "infer_ret"}
    /\ resp = XmlNone
    /\ pause = 10

(* --- C5 ---------------------------------------------------------------- *)
\* C5: on a later run over the unchanged 3 km file of a place with the
\* unchanged input coordinate, resolution does not set force_update.
RerunDoesNotForce ==
    (/\ run > 1
     /\ pc = "radius" /\ radii = RadiusOrder
     /\ osm_root # XmlNone
     /\ osm_root = cache[idx][3].graph)
    => ~force_update

(* --- C6 ---------------------------------------------------------------- *)
ClaimFamily == ExactKeys \cup {"name"}

IsAdminRelation(r) == Get(r.tags, "boundary") \in {"administrative", "historic"}

FamilyExact(seg, tags) ==
    \E k \in ClaimFamily \cap DOMAIN tags : tags[k] = seg

FamilyContains(seg, tags) ==
    \E k \in ClaimFamily \cap DOMAIN tags : IsSubstring(seg, tags[k])

ExactRelations(in) ==
    {k \in DOMAIN in.root.relations :
        /\ IsAdminRelation(in.root.relations[k])
        /\ FamilyExact(in.addr_4, in.root.relations[k].tags)}

SubstringRelations(in) ==
    {k \in DOMAIN in.root.relations :
        /\ IsAdminRelation(in.root.relations[k])
        /\ ~FamilyExact(in.addr_4, in.root.relations[k].tags)
        /\ FamilyContains(in.addr_4, in.root.relations[k].tags)}

FirstOf(S) == CHOOSE k \in S : \A j \in S : k <= j

\* C6: in a graph with a boundary relation whose name family equals the
\* segment and another whose name family only contains it, in either
\* order, boundary_id is the id of the (first) exact relation and no
\* relation after it is scanned.
ExactBoundaryWins ==
    (/\ fpc = "return"
     /\ ExactRelations(fin) # {}
     /\ SubstringRelations(fin) # {})
    => /\ fout.boundary_id = fin.root.relations[FirstOf(ExactRelations(fin))].id
       /\ fout.scanned <= FirstOf(ExactRelations(fin))

(* --- C7 ---------------------------------------------------------------- *)
NothingToFind(in) ==
    /\ \A i \in DOMAIN in.root.nodes : "place" \notin DOMAIN in.root.nodes[i].tags
    /\ \A k \in DOMAIN in.root.relations :
          ~(/\ IsAdminRelation(in.root.relations[k])
            /\ FamilyContains(in.addr_4, in.root.relations[k].tags))

\* C7: a graph with no place-tagged node and no administrative or historic
\* boundary relation whose name family matches the segment resolves to
\* node_id = -1 and boundary_id = -1.
SentinelsWhenNothingMatches ==
    (fpc = "return" /\ NothingToFind(fin))
    => fout.node_id = -1 /\ fout.boundary_id = -1

\* such a graph, with a matching capital node, a matching town hall and a
\* relation that is no boundary
SentinelsWitness ==
    /\ fpc = "return" /\ NothingToFind(fin)
    /\ Len(fin.root.nodes) = 2 /\ Len(fin.root.relations) >= 1
    /\ fout.node_lon # None
    /\ \E k \in DOMAIN fin.root.relations :
          fin.root.relations[k].tags["boundary"] = "postal_code"
    /\ fout.node_id = -1 /\ fout.boundary_id = -1

(* --- C8 ---------------------------------------------------------------- *)
StaleEntries ==
    {r \in {1, 3} : cache[idx][r] # NoFile
                    /\ cache[idx][r].centre # <<lon, lat>>}

\* C8 as claimed: once the resolver has corrected the coordinate, the
\* place is done with no cache entry still centred on the stale coordinate.
NoStaleEntryAfterCorrection ==
    (pc = "append" /\ force_update) => StaleEntries = {}

\* C8 as amended: a differing resolver coordinate replaces the working and
\* the row coordinate and sets force_update; the radius loop then asks for
\* 3 km before 1 km, past the cache, at the corrected coordinate, and 1 km
\* only once the 3 km file is the one of the corrected coordinate; when the
\* loop ends without a failed download no entry of the place is stale.
CorrectionForcesRefetch ==
    /\ [][(/\ pc = "correct"
           /\ inferred.nlon # None /\ inferred.nlat # None
           /\ (inferred.nlon # lon \/ inferred.nlat # lat))
          => (/\ lon' = inferred.nlon /\ lat' = inferred.nlat
              /\ row'.lon = inferred.nlon /\ row'.lat = inferred.nlat
              /\ force_update'
              /\ radii' = <<3, 1>>
              /\ pc' = "radius")]_vars
    /\ [](pc \in {"get_osm_data", "safe_post", "get_osm_data_ret"}
          /\ call.kind = "dataset" /\ force_update
          => /\ call.force_update
             /\ call.lon = lon /\ call.lat = lat
             /\ call.r = 1 => /\ cache[idx][3] # NoFile
                              /\ cache[idx][3].centre = <<lon, lat>>)
    /\ [](pc = "radius_ret" /\ force_update /\ resp # XmlNone => pause = 2)
    /\ [](pc = "append" /\ force_update /\ radii = <<>>
          => /\ StaleEntries = {}
             /\ cache[idx][3] # NoFile /\ cache[idx][1] # NoFile)

\* a later run corrected the coordinate and replaced both files
CorrectionWitness ==
    /\ run = 2 /\ pc = "append" /\ force_update /\ radii = <<>>
    /\ osm_root # XmlNone
    /\ <<lon, lat>> # InputCoord(idx)
    /\ cache[idx][3].centre = <<lon, lat>>
    /\ cache[idx][1].centre = <<lon, lat>>

(* --- C9 ---------------------------------------------------------------- *)
\* C9: whenever a request to the remote service is about to be issued, the
\* cool-down has elapsed since the last successful request, be it a
\* dataset download or the remote query of the resolver.
CoolDownBeforeRequest == pc = "safe_post" => sinceOk >= FetchPause

(* --- C10 --------------------------------------------------------------- *)
SchoolElements(elems) ==
    Cardinality({i \in DOMAIN elems :
                   \/ Get(elems[i].tags, "amenity") = "school"
                   \/ Get(elems[i].tags, "education") = "school"})

\* C10: the school counter is the number of ways plus the number of nodes
\* tagged amenity=school or education=school, and a school element that is
\* not tagged police leaves the police counter alone; the graph of one way
\* highway=primary and one node amenity=school gives trunk = 0,
\* school = 1 and s3 >= 5.
SchoolCountsWaysAndNodes ==
    /\ (fpc = "return" /\ fout.exc = "none")
       => /\ fout.amenities.school
               = SchoolElements(fin.ways) + SchoolElements(fin.nodes)
          /\ fout.amenities.police
               = Cardinality({i \in DOMAIN fin.nodes :
                                Get(fin.nodes[i].tags, "amenity") = "police"})
    /\ (/\ fpc = "scored"
        /\ Len(fin.ways) = 1 /\ fin.ways[1].tags = [highway |-> "primary"]
        /\ Len(fin.nodes) = 1 /\ fin.nodes[1].tags = [amenity |-> "school"])
       => /\ fout.counted.roads.trunk = 0
          /\ fout.counted.amenities.school = 1
          /\ fout.scores[3] >= 5 * Scale

(* --- C11 --------------------------------------------------------------- *)
\* the nodes the node loop collects as place candidates
CandidateNodes(in) ==
    {i \in DOMAIN in.root.nodes :
        /\ "name" \in DOMAIN in.root.nodes[i].tags
        /\ IsPlaceCand(in.root.nodes[i].tags)}

\* the members of relation r that are label or admin_centre nodes and refer
\* to a place candidate, as indices into the nodes
AnchorNodes(in, r) ==
    {i \in CandidateNodes(in) :
        \E j \in DOMAIN r.members :
            /\ r.members[j].type = "node"
            /\ r.members[j].role \in {"label", "admin_centre"}
            /\ r.members[j].ref = in.root.nodes[i].id}

\* the matched boundary relations the scan reached that have such a member
AnchoredBoundaries(in, out) ==
    {k \in 1..out.scanned :
        /\ "name" \in DOMAIN in.root.relations[k].tags
        /\ IsBoundary(in.addr_4, in.root.relations[k].tags)
        /\ AnchorNodes(in, in.root.relations[k]) # {}}

\* C11: when a matched boundary relation has a label or admin_centre node
\* member that is a place candidate, the result carries the coordinate of
\* such a member and node_id is the weak sentinel -2, or the id of such a
\* member whose own tags, or whose boundary's tags, exact-match the segment;
\* and a returned node_id of -2 comes with boundary_id # -1.
WeakUnlessExact ==
    fpc = "return" =>
      /\ AnchoredBoundaries(fin, fout) # {} =>
           /\ \E k \in AnchoredBoundaries(fin, fout) :
                \E i \in AnchorNodes(fin, fin.root.relations[k]) :
                    /\ fout.node_lon = fin.root.nodes[i].lon
                    /\ fout.node_lat = fin.root.nodes[i].lat
           /\ \/ fout.node_id = -2
              \/ \E k \in AnchoredBoundaries(fin, fout) :
                   \E i \in AnchorNodes(fin, fin.root.relations[k]) :
                       /\ fout.node_id = fin.root.nodes[i].id
                       /\ \/ FamilyExact(fin.addr_4, fin.root.nodes[i].tags)
                          \/ FamilyExact(fin.addr_4, fin.root.relations[k].tags)
      /\ fout.node_id = -2 => fout.boundary_id # -1

\* C11 as amended: the promotion to the member's id takes a place-tagged
\* member whose name family contains the segment and that carries a capital
\* tag, or whose boundary's tags exact-match the segment; the rest as above.
WeakUnlessCapitalOrExactBoundary ==
    fpc = "return" =>
      /\ AnchoredBoundaries(fin, fout) # {} =>
           /\ \E k \in AnchoredBoundaries(fin, fout) :
                \E i \in AnchorNodes(fin, fin.root.relations[k]) :
                    /\ fout.node_lon = fin.root.nodes[i].lon
                    /\ fout.node_lat = fin.root.nodes[i].lat
           /\ \/ fout.node_id = -2
              \/ \E k \in AnchoredBoundaries(fin, fout) :
                   \E i \in AnchorNodes(fin, fin.root.relations[k]) :
                       /\ fout.node_id = fin.root.nodes[i].id
                       /\ fout.node_lon = fin.root.nodes[i].lon
                       /\ fout.node_lat = fin.root.nodes[i].lat
                       /\ "place" \in DOMAIN fin.root.nodes[i].tags
                       /\ FamilyContains(fin.addr_4, fin.root.nodes[i].tags)
                       /\ \/ "capital" \in DOMAIN fin.root.nodes[i].tags
                          \/ FamilyExact(fin.addr_4, fin.root.relations[k].tags)
      /\ fout.node_id = -2 => fout.boundary_id # -1

\* a boundary that only contains the segment, whose admin_centre member is
\* passed over as weak and whose label member, a capital that only contains
\* the segment, is promoted
WeakThenPromotedWitness ==
    /\ fpc = "return"
    /\ Len(fin.root.nodes) = 2 /\ Len(fin.root.relations) = 1
    /\ AnchoredBoundaries(fin, fout) = {1}
    /\ AnchorNodes(fin, fin.root.relations[1]) = {1, 2}
    /\ ~FamilyExact(fin.addr_4, fin.root.relations[1].tags)
    /\ "capital" \notin DOMAIN fin.root.nodes[2].tags
    /\ "capital" \in DOMAIN fin.root.nodes[1].tags
    /\ ~FamilyExact(fin.addr_4, fin.root.nodes[1].tags)
    /\ fout.node_id = fin.root.nodes[1].id
    /\ fout.node_lon = fin.root.nodes[1].lon
    /\ fout.boundary_id = fin.root.relations[1].id

=============================================================================
